---- MODULE Spec2Model ----
(***************************************************************************)
(* Model of opt.LinIpm (src/opt/linipm.go): the primal-dual interior-point *)
(* solver for linear programs.  One LinIpm object is modelled together     *)
(* with its caller (Init, Solve, Free) and the linear-solver backend Lis.  *)
(*                                                                         *)
(* float64 values are modelled as exact rationals <<n, d>> in lowest terms *)
(* with d > 0, extended by the IEEE special values that a division by zero *)
(* produces: <<1, 0>> is +Inf, <<-1, 0>> is -Inf and <<0, 0>> is NaN.      *)
(* Rounding and signed zeros are not modelled.                             *)
(*                                                                         *)
(* The linear solver is an external backend: each of its calls may fail,   *)
(* and a successful SolveR writes any vector of a small set into Mdy.      *)
(*                                                                         *)
(* Spec follows one LinIpm through Init, Solve and Free.  StepSpec runs    *)
(* the step engine of Solve (lines 249-261) on iterates and directions     *)
(* drawn from bounded sets.                                                *)
(***************************************************************************)
EXTENDS Integers, Sequences, FiniteSets, TLC

\* ------------------------------------------------------------------ bounds

\* largest value of the "nmaxit" option that is explored; the loop of Solve is
\* followed for at most MaxIt iterations
MaxIt == 2

\* largest number of calls of Free the caller makes
MaxFree == 2

\* the entries of the iterates the step engine is run on are k/2, 1 <= k <= MaxNum
MaxNum == 3

\* the entries of the directions the step engine is run on are -MaxDir..MaxDir
MaxDir == 2

\* ------------------------------------------------------- program constants

DefaultNmaxIt == 50

DefaultTol == <<1, 100000000>>

\* ------------------------------------------------------- float64 arithmetic

Abs(n) == IF n < 0 THEN -n ELSE n

Sgn(n) == IF n < 0 THEN -1 ELSE IF n > 0 THEN 1 ELSE 0

RECURSIVE Gcd(_, _)
Gcd(a, b) == IF b = 0 THEN a ELSE Gcd(b, a % b)

NaN == <<0, 0>>

Zero == <<0, 1>>

One == <<1, 1>>

\* the float64 of the integer k
F(k) == <<k, 1>>

\* n/d in lowest terms, d > 0
Frac(n, d) == LET g == Gcd(Abs(n), d) IN <<n \div g, d \div g>>

IsNaN(a) == a[2] = 0 /\ a[1] = 0

IsInf(a) == a[2] = 0 /\ a[1] # 0

FNeg(a) == <<-a[1], a[2]>>

FAbs(a) == <<Abs(a[1]), a[2]>>

FAdd(a, b) ==
  IF IsNaN(a) \/ IsNaN(b) THEN NaN
  ELSE IF IsInf(a) /\ IsInf(b) THEN (IF a[1] = b[1] THEN a ELSE NaN)
  ELSE IF IsInf(a) THEN a
  ELSE IF IsInf(b) THEN b
  ELSE LET g == Gcd(a[2], b[2])
       IN Frac(a[1] * (b[2] \div g) + b[1] * (a[2] \div g), (a[2] \div g) * b[2])

FSub(a, b) == FAdd(a, FNeg(b))

FMul(a, b) ==
  IF IsNaN(a) \/ IsNaN(b) THEN NaN
  ELSE IF IsInf(a) \/ IsInf(b)
       THEN (IF a[1] = 0 \/ b[1] = 0 THEN NaN ELSE <<Sgn(a[1]) * Sgn(b[1]), 0>>)
  ELSE IF a[1] = 0 \/ b[1] = 0 THEN Zero
  ELSE LET g1 == Gcd(Abs(a[1]), b[2])
           g2 == Gcd(Abs(b[1]), a[2])
       IN <<(a[1] \div g1) * (b[1] \div g2), (a[2] \div g2) * (b[2] \div g1)>>

FDiv(a, b) ==
  IF IsNaN(a) \/ IsNaN(b) THEN NaN
  ELSE IF IsInf(a) THEN (IF IsInf(b) THEN NaN
                         ELSE <<a[1] * (IF b[1] < 0 THEN -1 ELSE 1), 0>>)
  ELSE IF IsInf(b) THEN Zero
  ELSE IF b[1] = 0 THEN <<Sgn(a[1]), 0>>
  ELSE FMul(a, <<Sgn(b[1]) * b[2], Abs(b[1])>>)

\* r1/d1 < r2/d2 for two fractions in [0, 1), without forming a product
RECURSIVE FracLess(_, _, _, _)
FracLess(r1, d1, r2, d2) ==
  IF r2 = 0 THEN FALSE
  ELSE IF r1 = 0 THEN TRUE
  ELSE LET q1 == d1 \div r1
           q2 == d2 \div r2
       IN IF q1 # q2 THEN q2 < q1
          ELSE FracLess(d2 % r2, r2, d1 % r1, r1)

\* the float64 comparison a < b (false when either side is NaN)
FLt(a, b) ==
  IF IsNaN(a) \/ IsNaN(b) THEN FALSE
  ELSE IF IsInf(a) \/ IsInf(b)
       THEN (IF IsInf(a) /\ IsInf(b) THEN a[1] < b[1]
             ELSE IF IsInf(a) THEN a[1] < 0
             ELSE b[1] > 0)
  ELSE LET qa == a[1] \div a[2]
           qb == b[1] \div b[2]
       IN IF qa # qb THEN qa < qb
          ELSE FracLess(a[1] % a[2], a[2], b[1] % b[2], b[2])

FGt(a, b) == FLt(b, a)

\* Go's builtin min and max on float64: NaN if either argument is NaN
FMin(a, b) == IF IsNaN(a) \/ IsNaN(b) THEN NaN ELSE IF FLt(b, a) THEN b ELSE a

FMax(a, b) == IF IsNaN(a) \/ IsNaN(b) THEN NaN ELSE IF FLt(a, b) THEN b ELSE a

\* int(v) of a finite float64: truncation toward zero
FInt(v) == Sgn(v[1]) * (Abs(v[1]) \div v[2])

\* the zero vector make([]float64, n)
ZeroVec(n) == [i \in 1..n |-> Zero]

\* s[1] + ... + s[n], accumulated from 0 in index order
RECURSIVE FSum(_, _)
FSum(s, n) == IF n = 0 THEN Zero ELSE FAdd(FSum(s, n - 1), s[n])

AllPos(v) == \A i \in 1..Len(v) : FGt(v[i], Zero)

\* ------------------------------------------- unevaluated float64 expressions
\* The products of iterates (Rs, mu, muaff, sigma) are carried as the float64
\* expression that computes them, over exact operands: no branch of the
\* program tests them, and their numerators outgrow 32-bit integers after
\* two iterations.

ELit(a) == <<"lit", a>>

EAdd(a, b) == <<"add", a, b>>

ESub(a, b) == <<"sub", a, b>>

EMul(a, b) == <<"mul", a, b>>

EDiv(a, b) == <<"div", a, b>>

\* math.Pow(a, k)
EPow(a, k) == <<"pow", a, k>>

\* acc + t[1] + ... + t[n], accumulated in index order
RECURSIVE EAccum(_, _, _)
EAccum(acc, t, n) == IF n = 0 THEN acc ELSE EAdd(EAccum(acc, t, n - 1), t[n])

\* ------------------------------------------------------------- la package

\* sum of coef[j] * vec[j] over the stored (non-zero) entries coef[j]
RECURSIVE DotNZ(_, _, _)
DotNZ(coef, vec, n) ==
  IF n = 0 THEN Zero
  ELSE IF coef[n] = 0 THEN DotNZ(coef, vec, n - 1)
  ELSE FAdd(DotNZ(coef, vec, n - 1), FMul(F(coef[n]), vec[n]))

\* la.SpMatVecMul(v, 1, a, u): v := a * u, a given by its rows
SpMatVecMul(a, u, nrow, ncol) == [r \in 1..nrow |-> DotNZ(a[r], u, ncol)]

\* la.SpMatTrVecMul(v, 1, a, u): v := aT * u
SpMatTrVecMul(a, u, nrow, ncol) ==
  [j \in 1..ncol |-> DotNZ([r \in 1..nrow |-> a[r][j]], u, nrow)]

\* la.SpMatMatTrMul(b, 1, a): b := a * aT
SpMatMatTrMul(a, nrow, ncol) ==
  [r \in 1..nrow |-> [q \in 1..nrow |->
     DotNZ(a[r], [j \in 1..ncol |-> F(a[q][j])], ncol)]]

\* m without row 1 and column k
Minor(m, k) ==
  [r \in 1..(Len(m) - 1) |-> [q \in 1..(Len(m) - 1) |->
     m[r + 1][IF q < k THEN q ELSE q + 1]]]

RECURSIVE Det(_)
Det(m) ==
  IF Len(m) = 0 THEN One
  ELSE LET Term(k) == FMul(IF k % 2 = 1 THEN m[1][k] ELSE FNeg(m[1][k]),
                           Det(Minor(m, k)))
       IN FSum([k \in 1..Len(m) |-> Term(k)], Len(m))

\* the solution x of m * x = v (one of the two systems of la.SPDsolve2)
SPDsolve(m, v) ==
  [k \in 1..Len(m) |->
     FDiv(Det([r \in 1..Len(m) |-> [q \in 1..Len(m) |->
                 IF q = k THEN v[r] ELSE m[r][q]]]),
          Det(m))]

\* number of stored entries of the compressed-column matrix a
Nnz(a, nrow, ncol) ==
  Cardinality({rc \in (1..nrow) \X (1..ncol) : a[rc[1]][rc[2]] # 0})

\* la.Triplet: pos entries are in use out of max; full is set by a Put beyond max
TripletInit(m, n, max) == [m |-> m, n |-> n, max |-> max, pos |-> 0, ents |-> <<>>, full |-> FALSE]

\* Triplet.Start
TripletStart(t) == [t EXCEPT !.pos = 0, !.ents = <<>>]

\* Triplet.Put(i, j, x), indices from 0 as in the source
TripletPut(t, i, j, x) ==
  IF t.full \/ t.pos >= t.max THEN [t EXCEPT !.full = TRUE]
  ELSE [t EXCEPT !.pos = t.pos + 1, !.ents = Append(t.ents, <<i, j, x>>)]

\* the stored entries of a in column order, as <<row, col, value>> from 0
CCEntries(a, nrow, ncol) ==
  LET RECURSIVE Upto(_)
      Upto(k) ==
        IF k = 0 THEN <<>>
        ELSE LET j == (k - 1) \div nrow
                 i == (k - 1) % nrow
             IN IF a[i + 1][j + 1] = 0 THEN Upto(k - 1)
                ELSE Append(Upto(k - 1), <<i, j, a[i + 1][j + 1]>>)
  IN Upto(nrow * ncol)

\* Triplet.PutCCMatAndMatT(a): a below the diagonal block and aT above it
RECURSIVE PutEntries(_, _, _, _)
PutEntries(t, es, ncol, k) ==
  IF k = 0 THEN t
  ELSE LET e == es[k]
           t1 == PutEntries(t, es, ncol, k - 1)
       IN TripletPut(TripletPut(t1, ncol + e[1], e[2], F(e[3])),
                     e[2], ncol + e[1], F(e[3]))

TripletPutCCMatAndMatT(t, a, nrow, ncol) ==
  PutEntries(t, CCEntries(a, nrow, ncol), ncol, Len(CCEntries(a, nrow, ncol)))

\* ------------------------------------------------------------------- state

VARIABLES
  pc,       \* where the caller and Solve stand
  A, B, C,  \* the problem: A by rows (Nl rows of Nx integers), b, c
  NmaxIt,   \* max number of iterations
  Tol,      \* tolerance for stopping iterations
  Nx, Nl,   \* number of x, number of lambda
  X, L, S,  \* the views of Y := [x, lambda, s]
  Mdx, Mdl, Mds,  \* the views of Mdy
  Rx, Rl, Rs,     \* the views of R
  J,        \* the Jacobian triplet
  calls,    \* the calls Solve has made to the linear solver Lis, with their results
  nFree,    \* number of times Lis.Free has run
  it,       \* the loop counter of Solve
  err,      \* the error Solve returns
  mu,       \* the local mu of Solve
  apa, ada, \* the locals alpha_prime_affine and alpha_dual_affine of Solve
  prms,     \* the params Init was called with
  X0, L0, S0,     \* the iterate when the current iteration began
  converged \* whether the convergence test has succeeded

vars == <<pc, A, B, C, NmaxIt, Tol, Nx, Nl, X, L, S, Mdx, Mdl, Mds, Rx, Rl, Rs,
          J, calls, nFree, it, err, mu, apa, ada, prms, X0, L0, S0, converged>>

problem == <<A, B, C, NmaxIt, Tol, Nx, Nl, prms>>

\* the vector Y of which X, L and S are slices
Y == X \o L \o S

\* the vector R of which Rx, Rl and Rs are slices
R == Rx \o Rl \o Rs

\* ------------------------------------------------------------------ inputs

\* the problems Init is called with
Problems ==
  { [A |-> << <<1, 1>> >>, B |-> <<F(2)>>, C |-> <<F(1), F(3)>>],
    [A |-> << <<1, 1>> >>, B |-> <<F(4)>>, C |-> <<F(-1), F(-2)>>],
    [A |-> << <<1, 1>> >>, B |-> <<F(1)>>, C |-> <<F(1), F(1)>>],
    [A |-> << <<1, 0>> >>, B |-> <<F(0)>>, C |-> <<F(1), F(3)>>],
    [A |-> << <<0, 1>> >>, B |-> <<F(1)>>, C |-> <<F(1), F(5)>>],
    [A |-> << <<1>> >>,    B |-> <<F(1)>>, C |-> <<F(1)>>],
    [A |-> << <<>> >>,     B |-> <<F(1)>>, C |-> <<>>],
    [A |-> <<>>,           B |-> <<>>,     C |-> <<F(1), F(-1)>>],
    [A |-> <<>>,           B |-> <<>>,     C |-> <<>>] }

Prm(n, v) == [N |-> n, V |-> v]

\* the parameter lists Init is called with
ParamLists ==
  { <<>>, <<Prm("tol", <<1, 1000>>), Prm("nmaxit", F(1))>>,
    <<Prm("other", F(7)), Prm("nmaxit", F(0))>>,
    <<Prm("nmaxit", <<3, 2>>)>>, <<Prm("nmaxit", F(0)), Prm("nmaxit", F(1))>> }
  \cup { <<Prm("nmaxit", F(n))>> : n \in -1..MaxIt }

\* the components of the vectors the linear solver returns
DirVals == {F(-1), F(1)}

\* the errors of the linear solver
NoError == "nil"

\* ---------------------------------------------------------- initial state

\* a LinIpm before Init: every field has its zero value
Init ==
  /\ pc = "new"
  /\ A = <<>> /\ B = <<>> /\ C = <<>> /\ prms = <<>>
  /\ NmaxIt = 0 /\ Tol = Zero /\ Nx = 0 /\ Nl = 0
  /\ X = <<>> /\ L = <<>> /\ S = <<>>
  /\ Mdx = <<>> /\ Mdl = <<>> /\ Mds = <<>>
  /\ Rx = <<>> /\ Rl = <<>> /\ Rs = <<>>
  /\ J = TripletInit(0, 0, 0)
  /\ calls = <<>> /\ nFree = 0
  /\ it = 0 /\ err = NoError
  /\ mu = ELit(Zero) /\ apa = Zero /\ ada = Zero
  /\ X0 = <<>> /\ L0 = <<>> /\ S0 = <<>>
  /\ converged = FALSE

\* ------------------------------------------------------------ LinIpm.Init

\* the loop over prms: the value of NmaxIt after the first k parameters
RECURSIVE NmaxItOf(_, _)
NmaxItOf(p, k) ==
  IF k = 0 THEN DefaultNmaxIt
  ELSE IF p[k].N = "nmaxit" THEN FInt(p[k].V)
  ELSE NmaxItOf(p, k - 1)

\* the value of Tol after the loop over prms
TolOf(p) == DefaultTol

\* nnz, the capacity Init declares for J
JacobianNnz(nl, nx) == 2 * nl * nx + 3 * nx

LinIpmInit(prob, p) ==
  /\ pc = "new"
  /\ pc' = "ready"
  /\ A' = prob.A /\ B' = prob.B /\ C' = prob.C /\ prms' = p
  /\ NmaxIt' = NmaxItOf(p, Len(p))
  /\ Tol' = TolOf(p)
  /\ Nx' = Len(prob.C)
  /\ Nl' = Len(prob.B)
  /\ X' = ZeroVec(Len(prob.C)) /\ L' = ZeroVec(Len(prob.B)) /\ S' = ZeroVec(Len(prob.C))
  /\ Mdx' = ZeroVec(Len(prob.C)) /\ Mdl' = ZeroVec(Len(prob.B)) /\ Mds' = ZeroVec(Len(prob.C))
  /\ Rx' = ZeroVec(Len(prob.C)) /\ Rl' = ZeroVec(Len(prob.B))
  /\ Rs' = [i \in 1..Len(prob.C) |-> ELit(Zero)]
  /\ J' = TripletInit(2 * Len(prob.C) + Len(prob.B), 2 * Len(prob.C) + Len(prob.B),
                      JacobianNnz(Len(prob.B), Len(prob.C)))
  /\ UNCHANGED <<calls, nFree, it, err, mu, apa, ada, X0, L0, S0, converged>>

\* ---------------------------------------------- LinIpm.Solve: starting point

\* xmin (or smin) of lines 128-133: min over the entries, from the first
RECURSIVE VecMin(_, _)
VecMin(v, n) == IF n = 1 THEN v[1] ELSE FMin(VecMin(v, n - 1), v[n])

\* the first shift of lines 134-135
Shift1(vmin) == FMax(FMul(<<-3, 2>>, vmin), Zero)

\* X, L and S at line 127, before the shifts
StartRaw ==
  LET AAt == SpMatMatTrMul(A, Nl, Nx)
      e == SpMatVecMul(A, C, Nl, Nx)
      d == SPDsolve(AAt, B)
      l == SPDsolve(AAt, e)
      AtL == SpMatTrVecMul(A, l, Nl, Nx)
  IN [X |-> SpMatTrVecMul(A, d, Nl, Nx),
      L |-> l,
      S |-> [i \in 1..Nx |-> FAdd(C[i], FNeg(AtL[i]))]]

\* X, L and S at line 149, after both shifts
StartingPoint ==
  LET raw == StartRaw
      dx1 == Shift1(VecMin(raw.X, Nx))
      ds1 == Shift1(VecMin(raw.S, Nx))
      x1 == [i \in 1..Nx |-> FAdd(raw.X[i], dx1)]
      s1 == [i \in 1..Nx |-> FAdd(raw.S[i], ds1)]
      xdots == FSum([i \in 1..Nx |-> FMul(x1[i], s1[i])], Nx)
      xsum == FSum(x1, Nx)
      ssum == FSum(s1, Nx)
      dx2 == FDiv(FMul(<<1, 2>>, xdots), ssum)
      ds2 == FDiv(FMul(<<1, 2>>, xdots), xsum)
  IN [X |-> [i \in 1..Nx |-> FAdd(x1[i], dx2)],
      L |-> raw.L,
      S |-> [i \in 1..Nx |-> FAdd(s1[i], ds2)]]

\* Solve up to the loop; X[0] at line 128 is out of range when Nx = 0
SolveStart ==
  /\ pc = "ready"
  /\ IF Nx = 0
     THEN /\ pc' = "panic"
          /\ UNCHANGED <<X, L, S>>
     ELSE /\ pc' = "loop"
          /\ X' = StartingPoint.X
          /\ L' = StartingPoint.L
          /\ S' = StartingPoint.S
  /\ it' = 0
  /\ UNCHANGED <<problem, Mdx, Mdl, Mds, Rx, Rl, Rs, J, calls, nFree, err, mu,
                 apa, ada, X0, L0, S0, converged>>

\* ---------------------------------------------------- LinIpm.Solve: the loop

\* the loop condition of line 174
LoopHead ==
  /\ pc = "loop"
  /\ IF it < NmaxIt
     THEN it < MaxIt /\ pc' = "residual"
     ELSE pc' = "exit"
  /\ UNCHANGED <<problem, X, L, S, Mdx, Mdl, Mds, Rx, Rl, Rs, J, calls, nFree, it,
                 err, mu, apa, ada, X0, L0, S0, converged>>

\* lerr of line 193
RelativeError ==
  LET ctx == FSum([i \in 1..Nx |-> FMul(C[i], X[i])], Nx)
      btl == FSum([i \in 1..Nl |-> FMul(B[i], L[i])], Nl)
  IN FDiv(FAbs(FSub(ctx, btl)), FAdd(One, FAbs(ctx)))

\* the convergence test of line 198
Converges == FLt(RelativeError, Tol)

\* compute residual and check convergence, lines 176-200
Residual ==
  /\ pc = "residual"
  /\ LET AtL == SpMatTrVecMul(A, L, Nl, Nx)
         Ax == SpMatVecMul(A, X, Nl, Nx)
     IN /\ Rx' = [i \in 1..Nx |-> FAdd(AtL[i], FSub(S[i], C[i]))]
        /\ Rl' = [i \in 1..Nl |-> FSub(Ax[i], B[i])]
  /\ Rs' = [i \in 1..Nx |-> EMul(ELit(X[i]), ELit(S[i]))]
  /\ mu' = EDiv(EAccum(ELit(Zero), [i \in 1..Nx |-> EMul(ELit(X[i]), ELit(S[i]))], Nx),
                ELit(F(Nx)))
  /\ X0' = X /\ L0' = L /\ S0' = S
  /\ IF Converges
     THEN pc' = "exit" /\ converged' = TRUE
     ELSE pc' = "assemble" /\ UNCHANGED converged
  /\ UNCHANGED <<problem, X, L, S, Mdx, Mdl, Mds, J, calls, nFree, it, err, apa, ada>>

\* an assembly that does not clear J
JacobianNoStart(t) == t

\* o.J.Start() of line 203
JacobianStart(t) == TripletStart(t)

\* the three entries of lines 206-208 for i < k
RECURSIVE PutDiagonals(_, _)
PutDiagonals(t, k) ==
  IF k = 0 THEN t
  ELSE LET i == k - 1
           I == Nx + Nl
       IN TripletPut(TripletPut(TripletPut(PutDiagonals(t, k - 1),
                       i, I + i, One), I + i, i, S[k]), I + i, I + i, X[k])

\* J after lines 203-209
AssembledJacobian ==
  PutDiagonals(TripletPutCCMatAndMatT(JacobianStart(J), A, Nl, Nx), Nx)

\* InitR called in every iteration
NeedInitRAlways(i) == TRUE

\* line 212: InitR is called in the first iteration only
NeedInitR(i) == i = 0

\* assemble Jacobian, lines 202-209; a Put beyond the capacity panics
Assemble ==
  /\ pc = "assemble"
  /\ J' = AssembledJacobian
  /\ pc' = IF AssembledJacobian.full THEN "panic"
           ELSE IF NeedInitR(it) THEN "initR" ELSE "fact"
  /\ UNCHANGED <<problem, X, L, S, Mdx, Mdl, Mds, Rx, Rl, Rs, calls, nFree, it, err,
                 mu, apa, ada, X0, L0, S0, converged>>

\* the vectors -dy a successful SolveR may write into Mdy
Directions ==
  { [x |-> dx, l |-> [i \in 1..Nl |-> One], s |-> ds] :
      dx \in [1..Nx -> DirVals], ds \in [1..Nx -> DirVals] }

\* a Solve that goes on after an error of the linear solver
AfterCallIgnoringError(res, next) == next

\* where Solve goes after a call of the linear solver returned res
AfterCall(res, next) == IF res # NoError THEN "done" ELSE next

\* o.Lis.InitR, lines 213-216
InitR ==
  /\ pc = "initR"
  /\ \E res \in {NoError, "SetupError"} :
       /\ calls' = Append(calls, <<"InitR", res>>)
       /\ err' = res
       /\ pc' = AfterCall(res, "fact")
  /\ UNCHANGED <<problem, X, L, S, Mdx, Mdl, Mds, Rx, Rl, Rs, J, nFree, it, mu,
                 apa, ada, X0, L0, S0, converged>>

\* o.Lis.Fact, lines 218-221
Fact ==
  /\ pc = "fact"
  /\ \E res \in {NoError, "FactorizationError"} :
       /\ calls' = Append(calls, <<"Fact", res>>)
       /\ err' = res
       /\ pc' = AfterCall(res, "solve1")
  /\ UNCHANGED <<problem, X, L, S, Mdx, Mdl, Mds, Rx, Rl, Rs, J, nFree, it, mu,
                 apa, ada, X0, L0, S0, converged>>

\* o.Lis.SolveR(o.Mdy, o.R, false) followed by the error check
SolveR(next) ==
  /\ \/ /\ calls' = Append(calls, <<"SolveR", "SolveError">>)
        /\ err' = "SolveError"
        /\ pc' = AfterCall("SolveError", next)
        /\ UNCHANGED <<Mdx, Mdl, Mds>>
     \/ \E dir \in Directions :
          /\ calls' = Append(calls, <<"SolveR", NoError>>)
          /\ err' = NoError
          /\ pc' = AfterCall(NoError, next)
          /\ Mdx' = dir.x /\ Mdl' = dir.l /\ Mds' = dir.s
  /\ UNCHANGED <<problem, X, L, S, Rx, Rl, Rs, J, nFree, it, mu, apa, ada,
                 X0, L0, S0, converged>>

\* the first solve, lines 222-225
Solve1 == pc = "solve1" /\ SolveR("control")

\* the second solve, lines 244-247
Solve2 == pc = "solve2" /\ SolveR("update")

\* calc_min_ratios for one of the pairs (X, Mdx), (S, Mds), over i < k
RECURSIVE MinRatioUpto(_, _, _)
MinRatioUpto(v, md, k) ==
  IF k = 0 THEN [first |-> TRUE, rmin |-> Zero]
  ELSE LET p == MinRatioUpto(v, md, k - 1)
       IN IF FGt(md[k], Zero)
          THEN [first |-> FALSE,
                rmin |-> IF p.first THEN FDiv(v[k], md[k])
                         ELSE FMin(p.rmin, FDiv(v[k], md[k]))]
          ELSE p

\* LinIpm.calc_min_ratios: <<xrmin, srmin>>
calc_min_ratios ==
  <<MinRatioUpto(X, Mdx, Nx).rmin, MinRatioUpto(S, Mds, Nx).rmin>>

\* control variables and update of the residual, lines 227-241
Control ==
  /\ pc = "control"
  /\ apa' = FMin(One, calc_min_ratios[1])
  /\ ada' = FMin(One, calc_min_ratios[2])
  /\ LET muaff == EDiv(EAccum(ELit(Zero),
                         [i \in 1..Nx |->
                            EMul(ELit(FSub(X[i], FMul(apa', Mdx[i]))),
                                 ELit(FSub(S[i], FMul(ada', Mds[i]))))], Nx),
                       ELit(F(Nx)))
         sigma == EPow(EDiv(muaff, mu), 3)
     IN Rs' = [i \in 1..Nx |->
                 EAdd(Rs[i], ESub(EMul(ELit(Mdx[i]), ELit(Mds[i])), EMul(sigma, mu)))]
  /\ pc' = "solve2"
  /\ UNCHANGED <<problem, X, L, S, Mdx, Mdl, Mds, Rx, Rl, J, calls, nFree, it, err,
                 mu, X0, L0, S0, converged>>

\* a step that goes all the way to the boundary
SafetyFactorOne == One

\* the factor 0.99 of lines 251-252
SafetyFactor == <<99, 100>>

\* the final step length of lines 251-252 for the ratio rmin
StepLength(rmin) == FMin(One, FMul(SafetyFactor, rmin))

\* step lengths and update, lines 249-261, and it++
Update ==
  /\ pc = "update"
  /\ apa' = StepLength(calc_min_ratios[1])
  /\ ada' = StepLength(calc_min_ratios[2])
  /\ X' = [i \in 1..Nx |-> FSub(X[i], FMul(apa', Mdx[i]))]
  /\ S' = [i \in 1..Nx |-> FSub(S[i], FMul(ada', Mds[i]))]
  /\ L' = [i \in 1..Nl |-> FSub(L[i], FMul(ada', Mdl[i]))]
  /\ it' = it + 1
  /\ pc' = "loop"
  /\ UNCHANGED <<problem, Mdx, Mdl, Mds, Rx, Rl, Rs, J, calls, nFree, err, mu,
                 X0, L0, S0, converged>>

\* check convergence and return, lines 264-268
SolveReturn ==
  /\ pc = "exit"
  /\ err' = IF it = NmaxIt THEN "iterations did not converge" ELSE err
  /\ pc' = "done"
  /\ UNCHANGED <<problem, X, L, S, Mdx, Mdl, Mds, Rx, Rl, Rs, J, calls, nFree, it,
                 mu, apa, ada, X0, L0, S0, converged>>

\* ------------------------------------------------------------ LinIpm.Free

\* the caller calls Free after Solve has returned
Free ==
  /\ pc = "done"
  /\ nFree < MaxFree
  /\ nFree' = nFree + 1
  /\ UNCHANGED <<problem, pc, X, L, S, Mdx, Mdl, Mds, Rx, Rl, Rs, J, calls, it, err,
                 mu, apa, ada, X0, L0, S0, converged>>

\* ----------------------------------------------------------- specification

Next ==
  \/ \E prob \in Problems, p \in ParamLists : LinIpmInit(prob, p)
  \/ SolveStart
  \/ LoopHead
  \/ Residual
  \/ Assemble
  \/ InitR
  \/ Fact
  \/ Solve1
  \/ Control
  \/ Solve2
  \/ Update
  \/ SolveReturn
  \/ Free

Spec == Init /\ [][Next]_vars

\* -------------------------------------------------- the step engine alone

\* strictly positive entries of an iterate
StepVals == {Frac(k, 2) : k \in 1..MaxNum}

\* entries of a direction
StepDirs == {F(k) : k \in -MaxDir..MaxDir}

\* Solve at line 249 of its first iteration, for a problem with one
\* constraint: the iterate is strictly interior and the second SolveR has
\* returned some direction; the fields the step engine does not read keep
\* their zero values
StepInit ==
  /\ pc = "update"
  /\ \E n \in 1..2 :
       /\ Nx = n
       /\ A = << [j \in 1..n |-> 1] >>
       /\ C = [j \in 1..n |-> One]
       /\ X \in [1..n -> StepVals]
       /\ S \in [1..n -> StepVals]
       /\ Mdx \in [1..n -> StepDirs]
       /\ Mds \in [1..n -> StepDirs]
       /\ Rx = ZeroVec(n)
       /\ Rs = [i \in 1..n |-> ELit(Zero)]
       /\ J = TripletInit(2 * n + 1, 2 * n + 1, JacobianNnz(1, n))
  /\ Nl = 1 /\ B = <<One>> /\ L = <<One>> /\ Mdl = <<One>> /\ Rl = <<Zero>>
  /\ prms = <<>> /\ NmaxIt = DefaultNmaxIt /\ Tol = DefaultTol
  /\ X0 = X /\ L0 = L /\ S0 = S
  /\ calls = <<>> /\ nFree = 0
  /\ it = 0 /\ err = NoError
  /\ mu = ELit(Zero) /\ apa = Zero /\ ada = Zero
  /\ converged = FALSE

StepNext == Update

StepSpec == StepInit /\ [][StepNext]_vars

\* ------------------------------------------------------------------ claims

\* some call of the linear solver has returned an error
BackendFailed == \E k \in 1..Len(calls) : calls[k][2] # NoError

\* C1: Solve returns without error only if the convergence test succeeded on
\* some iteration; when the test never succeeds within NmaxIt iterations it
\* returns "iterations did not converge", for every value of NmaxIt; with
\* NmaxIt = 0 it does so without an iteration or a call of the linear solver.
\* (Stated for problems of positive dimensions.)
ReturnsNilOnlyIfConverged ==
  (pc = "done" /\ ~BackendFailed /\ Nx > 0 /\ Nl > 0) =>
     /\ err = NoError => converged
     /\ ~converged => err = "iterations did not converge"
     /\ NmaxIt = 0 => (err = "iterations did not converge" /\ it = 0 /\ calls = <<>>)

\* the value the last parameter named n asks for, dflt when there is none
RECURSIVE Requested(_, _, _, _)
Requested(p, k, n, dflt) ==
  IF k = 0 THEN dflt
  ELSE IF p[k].N = n THEN p[k].V
  ELSE Requested(p, k - 1, n, dflt)

\* C2: after Init, Tol is the value of the "tol" parameter and NmaxIt the
\* value of the "nmaxit" parameter; an absent option leaves the default
\* (1e-8, 50) and parameters of other names change nothing.
InitReadsBothOptions ==
  pc # "new" =>
     /\ Tol = Requested(prms, Len(prms), "tol", DefaultTol)
     /\ NmaxIt = FInt(Requested(prms, Len(prms), "nmaxit", F(DefaultNmaxIt)))

\* C3: Init with Nx = 0 or Nl = 0 fails with a ConfigError; it never leaves
\* a solver object on which Solve then runs or crashes.
DegenerateProblemRejected ==
  (Len(C) = 0 \/ Len(B) = 0) => pc \in {"new", "ConfigError"}

\* C4: the starting point of Solve is strictly interior for every input:
\* after the two shifts every X[i] > 0 and every S[i] > 0.
StartingPointInterior ==
  (pc = "loop" /\ it = 0 /\ Nl > 0) => (AllPos(X) /\ AllPos(S))

\* C5: the linear-solver handle is released exactly once on every exit path
\* of a solve (convergence, iteration cap, error of the linear solver).
\* (Stated for problems of positive dimensions.)
ReleasedExactlyOnce == (pc = "done" /\ Nx > 0 /\ Nl > 0) => nFree = 1

\* C6: an error of InitR, Fact or SolveR makes Solve return that error at
\* once: the failed call is the last one, no iteration follows, and X, L, S
\* keep the values they had when the iteration began.
ErrorReturnsAtOnce ==
  \A k \in 1..Len(calls) :
     calls[k][2] # NoError =>
        /\ k = Len(calls)
        /\ pc = "done"
        /\ err = calls[k][2]
        /\ X = X0 /\ L = L0 /\ S = S0

\* the second SolveR of the second iteration failed after the first iteration
\* had moved the iterate
ErrorInSecondIteration ==
  /\ pc = "done" /\ err = "SolveError" /\ it = 1
  /\ Len(calls) = 7
  /\ calls[6] = <<"SolveR", NoError>>
  /\ X = X0 /\ AllPos(X)

NoPositive(md) == \A i \in 1..Len(md) : ~FGt(md[i], Zero)

\* C7: when no Mdx[i] > 0 the primal step length is 1, and when no
\* Mds[i] > 0 the dual step length is 1, for the affine step (between the
\* two solves) and for the final step (after the update).
\* (Stated for iterations that began at a strictly interior iterate.)
UnboundedRatioGivesFullStep ==
  ((pc = "solve2" \/ (pc = "loop" /\ it > 0)) /\ AllPos(X0) /\ AllPos(S0)) =>
     /\ NoPositive(Mdx) => apa = One
     /\ NoPositive(Mds) => ada = One

\* C8: the update keeps the iterate strictly interior: from X > 0 and S > 0,
\* whatever direction the solver returned, X > 0 and S > 0 after the update.
UpdateKeepsInterior ==
  [][(pc = "update" /\ AllPos(X) /\ AllPos(S)) => (AllPos(X') /\ AllPos(S'))]_vars

\* an update from an interior iterate has been cut short by the ratio test
\* in both the primal and the dual step, with a direction of mixed signs
InteriorAfterCutStep ==
  /\ Nx = 2
  /\ FGt(Mdx[2], Zero) /\ ~FGt(Mdx[1], Zero)
  /\ FGt(Mds[1], Zero) /\ FGt(Mds[2], Zero) /\ Mds[1] # Mds[2]
  /\ pc = "loop" /\ it > 0
  /\ AllPos(X0) /\ AllPos(S0)
  /\ FLt(Zero, apa) /\ FLt(apa, One)
  /\ FLt(Zero, ada) /\ FLt(ada, One)
  /\ AllPos(X) /\ AllPos(S)
  /\ X # X0 /\ S # S0

\* the calls of the linear solver made so far are InitR, then Fact, SolveR,
\* SolveR for each iteration
CallPattern ==
  \A k \in 1..Len(calls) :
     calls[k][1] = IF k = 1 THEN "InitR"
                   ELSE IF (k - 2) % 3 = 0 THEN "Fact" ELSE "SolveR"

\* the number of calls made when Solve stands at pc in iteration it
CallsAt ==
  CASE pc = "initR" -> it = 0 /\ Len(calls) = 0
    [] pc = "fact" -> Len(calls) = 1 + 3 * it
    [] pc = "solve1" -> Len(calls) = 2 + 3 * it
    [] pc \in {"control", "solve2"} -> Len(calls) = 3 + 3 * it
    [] pc = "update" -> Len(calls) = 4 + 3 * it
    [] pc \in {"loop", "residual", "assemble"} ->
         Len(calls) = IF it = 0 THEN 0 ELSE 1 + 3 * it
    [] OTHER -> TRUE

\* the residual Rs carries the corrector term exactly between the two solves
CorrectorAt ==
  /\ pc \in {"assemble", "initR", "fact", "solve1", "control"} =>
        \A i \in 1..Nx : Rs[i][1] = "mul"
  /\ pc \in {"solve2", "update"} => \A i \in 1..Nx : Rs[i][1] = "add"

\* C9: in every iteration that passes the convergence test and meets no
\* error, the linear solver is called in this order: InitR in iteration 0
\* only, one Fact on the reassembled Jacobian, then two SolveR; the corrector
\* update of Rs lies between the two SolveR, and J, Rx and Rl do not change
\* between them.
BackendCallOrder ==
  /\ [](CallPattern /\ CallsAt /\ CorrectorAt)
  /\ [](pc \in {"initR", "fact", "solve1", "control", "solve2", "update"}
          => J = AssembledJacobian)
  /\ [][(pc \in {"control", "solve2"}) => (J' = J /\ Rx' = Rx /\ Rl' = Rl)]_vars

\* the second iteration has made its two solves
SecondIterationSolved ==
  /\ pc = "update" /\ it = 1
  /\ Len(calls) = 7
  /\ calls[5] = <<"Fact", NoError>>
  /\ J # TripletInit(J.m, J.n, J.max)

\* C10: the Jacobian triplet never exceeds its declared capacity
\* 2*Nl*Nx + 3*Nx: each assembly starts from an empty J and puts the entries
\* of A twice and three entries per i < Nx.
JacobianWithinCapacity ==
  pc # "new" =>
     /\ J.max = 2 * Nl * Nx + 3 * Nx
     /\ J.pos <= J.max
     /\ ~J.full
     /\ pc # "panic" \/ Nx = 0
     /\ pc \in {"initR", "fact", "solve1", "control", "solve2", "update"} =>
           J.pos = 2 * Nnz(A, Nl, Nx) + 3 * Nx

\* the Jacobian of a full A has been assembled a second time and fills J
SecondAssemblyFillsJacobian ==
  /\ pc = "fact" /\ it = 1
  /\ Nl > 0 /\ Nnz(A, Nl, Nx) = Nl * Nx
  /\ J.pos = J.max

====
